---- MODULE Spec2Model ----
(***************************************************************************)
(* Download & progress coordination of the video-downloader front end      *)
(* (src/src/App.js, the variant with the slow-connection advisory, lines   *)
(* 304-628; the earlier variant, lines 1-303, is the same code without     *)
(* slowDownloadReason / downloadStartTime and with the port probe).        *)
(*                                                                         *)
(* React semantics used throughout: a handler runs to completion on the    *)
(* single thread; the state setters it calls are batched; the component    *)
(* then re-renders and the passive effect of lines 357-363 runs its        *)
(* cleanup when the eventSource state changed.  A handler (and every       *)
(* callback or continuation it creates) reads the state values of the      *)
(* render in which it was created, not the current ones.                   *)
(* Times are in seconds.                                                   *)
(***************************************************************************)
EXTENDS Integers, Sequences, FiniteSets, TLC

\* ------------------------------------------------------------------ bounds
MaxJobs == 3         \* handleMergeDownload calls in a behaviour
MaxTimedJobs == 2    \* the same, in the behaviours in which time passes
MaxUnmountJobs == 2  \* the same, in the behaviours with an unmount
MaxTicks == 2        \* clock steps in a behaviour
TickStep == 20       \* seconds per clock step
MaxRequests == 2     \* format requests in flight
MaxFormats == 3      \* descriptors in a backend format list
MaxSpeedJobs == 1    \* handleMergeDownload calls in the speed behaviours
SpeedWindow == 8     \* speeds on each side of a sampled speed
MaxBrowseJobs == 1   \* handleMergeDownload calls in the behaviours with format requests

\* ------------------------------------------------------- program constants
Null == 0
NoIndex == -1
Undefined == -1
ClockOrigin == 1700000000
SlowAfterSeconds == 30
SlowBelow == 1024 * 1024
VerySlowBelow == 1024 * 50
MildSlowBelow == 1024 * 200
VerySlowWording == "Very slow internet connection detected. This might take a while."
SlowWording == "Slow internet connection detected. Please be patient."

DefaultPort == 5001
FirstPort == 5001
PortLimit == 5010
Ports == FirstPort .. (PortLimit - 1)

\* The terminal statuses of a job (spec, glossary).
TerminalStatuses == {"completed", "finished", "error"}

\* ------------------------------------------------------------------ inputs
\* Responses of POST /api/download: a title and the backend's format list.
Fmt(id, q, size) == [format_id |-> id, quality |-> q, filesize |-> size]

Responses ==
  { [title |-> "T", formats |-> << Fmt("a", "720p", 1000000) >>],
    [title |-> "U", formats |-> << Fmt("b", "720p", 0), Fmt("c", "720p", 2000),
                                   Fmt("d", "480p", 3000), Fmt("e", "720p", 4000) >>] }

NoVideoInfo == [isNull |-> TRUE]

\* Every format list of at most MaxFormats descriptors over two qualities
\* and a missing, zero, negative or positive filesize; the format_id of a
\* descriptor is its position in the list.
Qualities == {"720p", "480p"}
Filesizes == {Undefined, 0, -5, 1000}

FormatLists ==
  UNION { { [i \in 1..n |-> Fmt(ToString(i), q[i], z[i])] :
              q \in [1..n -> Qualities], z \in [1..n -> Filesizes] } : n \in 0..MaxFormats }

FormResponses == { [title |-> "T", formats |-> fs] : fs \in FormatLists }

\* event.data of a progress event: text that is not JSON, the JSON texts
\* null and 42, and JSON objects {status, speed} with either field possibly
\* absent.
Statuses == {"downloading", "merging", "completed", "finished", "error", "undefined"}
Speeds == {Undefined, 100, 102400, 2097152}

\* Integer speeds around the unit thresholds, the rounding ties of one
\* decimal (1280 / 1024 = 1.25, 1310720 / 1048576 = 1.25) and three
\* ordinary speeds.
SpeedCentres == {SpeedWindow + 1, 500, 1024, 1280, 2048, 1048576, 1310720, 5242880}

SpeedInputs ==
  UNION { (m - SpeedWindow) .. (m + SpeedWindow) : m \in SpeedCentres }

SpeedEvents ==
  {[kind |-> "object", status |-> "downloading", speed |-> v] : v \in SpeedInputs}

EventData ==
  {[kind |-> k, status |-> "undefined", speed |-> Undefined] : k \in {"garbage", "null", "number"}}
    \cup {[kind |-> "object", status |-> "downloading", speed |-> v] : v \in Speeds}
    \cup {[kind |-> "object", status |-> s, speed |-> Undefined] :
             s \in Statuses \ {"downloading"}}

\* ------------------------------------------------------------------- state
VARIABLES
  loading, error, videoInfo,                       \* lines 332-334
  downloadingIndex, downloadStatus, downloadSpeed, \* lines 339-341
  eventSource,                                     \* line 342: Null or a channel id
  slowDownloadReason, downloadStartTime,           \* lines 343-344
  open,          \* ids of the EventSource objects whose readyState is not CLOSED
  jobs,          \* one record per handleMergeDownload call, in call order
  now,           \* Date.now(), in seconds
  alerts,        \* number of alert() calls so far
  terminated,    \* ids of the channels that have delivered a terminal status
  outstanding,   \* number of POST /api/download requests in flight
  mounted,       \* the component has not been unmounted
  backendPort,   \* line 29 (the variant of lines 1-303)
  reachable,     \* the ports on which GET /api/health succeeds
  locator        \* checkBackendPort: the loop variable, whether the loop has
                 \* ended, and the ports probed so far, in order

vars == << loading, error, videoInfo, downloadingIndex, downloadStatus, downloadSpeed,
           eventSource, slowDownloadReason, downloadStartTime, open, jobs, now,
           alerts, terminated, outstanding, mounted, backendPort, reachable, locator >>

locatorVars == << backendPort, reachable, locator >>

\* What the download handlers leave alone.
formVars == << loading, error, videoInfo, outstanding, mounted, locatorVars >>

Init ==
  /\ loading = FALSE
  /\ error = ""
  /\ videoInfo = NoVideoInfo
  /\ downloadingIndex = NoIndex
  /\ downloadStatus = ""
  /\ downloadSpeed = 0
  /\ eventSource = Null
  /\ slowDownloadReason = ""
  /\ downloadStartTime = Null
  /\ open = {}
  /\ jobs = << >>
  /\ now = ClockOrigin
  /\ alerts = 0
  /\ terminated = {}
  /\ outstanding = 0
  /\ mounted = TRUE
  /\ backendPort = DefaultPort
  /\ reachable \in SUBSET Ports
  /\ locator = [port |-> FirstPort, done |-> FALSE, probed |-> << >>]

\* ----------------------------------------------------------------- helpers
\* EventSource.close(): readyState becomes CLOSED; closing twice is harmless.
close(op, es) == op \ {es}

\* `if (eventSource) { eventSource.close(); }` on a captured handle.
closeIfSet(op, es) == IF es # Null THEN close(op, es) ELSE op

\* The effect without the close() in its cleanup.
useEffectCleanupNoClose(prev, next, op) == op

\* The effect of lines 357-363, deps [eventSource]: when a render commits a
\* different eventSource, the cleanup of the previous render closes the
\* handle that render held.
useEffectCleanup(prev, next, op) ==
  IF prev # next /\ prev # Null THEN close(op, prev) ELSE op

\* `progress.status || ''` and `progress.speed || 0`.
statusOrEmpty(s) == IF s = "undefined" THEN "" ELSE s
speedOrZero(v) == IF v = Undefined THEN 0 ELSE v

\* `progress.speed < k`: a comparison with undefined is false.
speedBelow(v, k) == v # Undefined /\ v < k

\* The slow-download check of lines 383-394 for a snapshot with the given
\* status and speed, read at time t0 by a handler that captured startTime
\* (null converts to 0 in the subtraction).  Yields the wording it sets, or
\* "" when it sets nothing.
slowCheck(status, speed, t0, startTime) ==
  IF status = "downloading"
       /\ t0 - startTime > SlowAfterSeconds
       /\ speedBelow(speed, SlowBelow)
  THEN IF speedBelow(speed, VerySlowBelow) THEN VerySlowWording
       ELSE IF speedBelow(speed, MildSlowBelow) THEN SlowWording
       ELSE ""
  ELSE ""

\* The same test with the `finished` alternative forgotten.
closesChannelNoFinished(status) == status = "completed" \/ status = "error"

\* The statuses on which es.onmessage closes its channel (lines 396, 400).
closesChannel(status) ==
  (status = "completed" \/ status = "finished") \/ status = "error"

\* `f.filesize && f.filesize > 0`: undefined and 0 are falsy.
hasFilesize(f) == f.filesize # Undefined /\ f.filesize # 0 /\ f.filesize > 0

\* The filter without seen.add: no de-duplication.
RECURSIVE filterFormatsNoSeen(_, _)
filterFormatsNoSeen(fs, seen) ==
  IF fs = << >> THEN << >>
  ELSE LET f == Head(fs)
       IN IF hasFilesize(f) /\ f.quality \notin seen
          THEN << f >> \o filterFormatsNoSeen(Tail(fs), seen)
          ELSE filterFormatsNoSeen(Tail(fs), seen)

\* The filter that marks a quality as seen before it tests the filesize.
RECURSIVE filterFormatsSeenFirst(_, _)
filterFormatsSeenFirst(fs, seen) ==
  IF fs = << >> THEN << >>
  ELSE LET f == Head(fs)
       IN IF f.quality \notin seen /\ hasFilesize(f)
          THEN << f >> \o filterFormatsSeenFirst(Tail(fs), seen \cup {f.quality})
          ELSE filterFormatsSeenFirst(Tail(fs), seen \cup {f.quality})

\* The list filter of lines 546-549: drop entries without a positive
\* filesize, then keep an entry only if its quality was not kept before.
RECURSIVE filterFormats(_, _)
filterFormats(fs, seen) ==
  IF fs = << >> THEN << >>
  ELSE LET f == Head(fs)
           keep == hasFilesize(f) /\ f.quality \notin seen
       IN IF keep
          THEN << f >> \o filterFormats(Tail(fs), seen \cup {f.quality})
          ELSE filterFormats(Tail(fs), seen)

displayedFormats(info) ==
  IF info = NoVideoInfo THEN << >> ELSE filterFormats(info.formats, {})

\* Indices of the rendered list items (JavaScript indices, from 0).
displayedIndices(info) == 0 .. (Len(displayedFormats(info)) - 1)

\* Number.prototype.toFixed(1) of speed / unit for an integer speed and a
\* unit that is a power of two (the quotient is exact): the integer n for
\* which n / 10 is nearest to the quotient, the larger one on a tie, printed
\* with one digit after the point.
toFixed1(n) == ToString(n \div 10) \o "." \o ToString(n % 10)

tenthsTruncated(speed, unit) == (speed * 10) \div unit

tenths(speed, unit) == (speed * 20 + unit) \div (2 * unit)

\* formatSpeed with the quotient cut off after one decimal.
formatSpeedTruncating(speed) ==
  IF speed = Undefined \/ speed = 0 THEN ""
  ELSE IF speed < 1024 THEN ToString(speed) \o " B/s"
  ELSE IF speed < 1024 * 1024 THEN toFixed1(tenthsTruncated(speed, 1024)) \o " KB/s"
  ELSE toFixed1(tenthsTruncated(speed, 1024 * 1024)) \o " MB/s"

\* formatSpeed (lines 417-422) for an integer speed; `!speed` holds of
\* undefined and of 0.
formatSpeed(speed) ==
  IF speed = Undefined \/ speed = 0 THEN ""
  ELSE IF speed < 1024 THEN ToString(speed) \o " B/s"
  ELSE IF speed < 1024 * 1024 THEN toFixed1(tenths(speed, 1024)) \o " KB/s"
  ELSE toFixed1(tenths(speed, 1024 * 1024)) \o " MB/s"

\* The speed line of the progress indicator (lines 584-589): rendered while
\* the status is `downloading` and the speed is positive.
speedLine ==
  IF downloadStatus = "downloading" /\ downloadSpeed > 0
  THEN "Download speed: " \o formatSpeed(downloadSpeed)
  ELSE ""

Pending == {j \in 1..Len(jobs) : jobs[j].fetch = "pending"}

\* --------------------------------------------------------- backend locator
\* checkBackendPort (lines 51-61): the loop `for (port = 5001; port < 5010;
\* port++)` awaits one health check per iteration.

\* The same continuation with the `break` forgotten.
probeSucceededNoBreak ==
  /\ ~locator.done
  /\ locator.port \in reachable
  /\ backendPort' = IF mounted THEN locator.port ELSE backendPort
  /\ locator' = [port |-> locator.port + 1,
                 done |-> ~(locator.port + 1 < PortLimit),
                 probed |-> Append(locator.probed, locator.port)]
  /\ UNCHANGED << loading, error, videoInfo, outstanding, mounted, reachable,
                  downloadingIndex, downloadStatus, downloadSpeed, eventSource,
                  slowDownloadReason, downloadStartTime, open, jobs, now, alerts,
                  terminated >>

\* The health check of the current port succeeds (lines 54-56):
\* setBackendPort(port); break.
probeSucceeded ==
  /\ ~locator.done
  /\ locator.port \in reachable
  /\ backendPort' = IF mounted THEN locator.port ELSE backendPort
  /\ locator' = [port |-> locator.port, done |-> TRUE,
                 probed |-> Append(locator.probed, locator.port)]
  /\ UNCHANGED << loading, error, videoInfo, outstanding, mounted, reachable,
                  downloadingIndex, downloadStatus, downloadSpeed, eventSource,
                  slowDownloadReason, downloadStartTime, open, jobs, now, alerts,
                  terminated >>

\* The health check of the current port fails (lines 57-59, 52): continue
\* with port++, and leave the loop when port < 5010 no longer holds.
probeFailed ==
  /\ ~locator.done
  /\ locator.port \notin reachable
  /\ locator' = [port |-> locator.port + 1,
                 done |-> ~(locator.port + 1 < PortLimit),
                 probed |-> Append(locator.probed, locator.port)]
  /\ UNCHANGED << loading, error, videoInfo, outstanding, mounted, backendPort,
                  reachable, downloadingIndex, downloadStatus, downloadSpeed,
                  eventSource, slowDownloadReason, downloadStartTime, open, jobs, now,
                  alerts, terminated >>

\* ----------------------------------------------------- format request flow
\* handleSubmit with a submit button that is never disabled.
handleSubmitNotDisabled ==
  /\ mounted
  /\ outstanding < MaxRequests
  /\ outstanding' = outstanding + 1
  /\ loading' = TRUE
  /\ error' = ""
  /\ videoInfo' = NoVideoInfo
  /\ UNCHANGED << mounted, locatorVars, downloadingIndex, downloadStatus, downloadSpeed,
                  eventSource, slowDownloadReason, downloadStartTime, open, jobs, now,
                  alerts, terminated >>

\* handleSubmit up to its await (lines 424-431); the submit button is
\* disabled while loading (line 526).
handleSubmit ==
  /\ mounted
  /\ ~loading
  /\ outstanding < MaxRequests
  /\ outstanding' = outstanding + 1
  /\ loading' = TRUE
  /\ error' = ""
  /\ videoInfo' = NoVideoInfo
  /\ UNCHANGED << mounted, locatorVars, downloadingIndex, downloadStatus, downloadSpeed, eventSource,
                  slowDownloadReason, downloadStartTime, open, jobs, now, alerts,
                  terminated >>

\* The continuation of handleSubmit when the request succeeds (line 432, 436),
\* while the component is mounted.
submitResolved(resp) ==
  /\ mounted
  /\ outstanding > 0
  /\ outstanding' = outstanding - 1
  /\ videoInfo' = resp
  /\ loading' = FALSE
  /\ UNCHANGED << mounted, locatorVars, error, downloadingIndex, downloadStatus, downloadSpeed, eventSource,
                  slowDownloadReason, downloadStartTime, open, jobs, now, alerts,
                  terminated >>

\* The continuation of handleSubmit when the request fails (lines 433-436);
\* backendError is err.response?.data?.error, "" when there is none.
submitRejected(backendError) ==
  /\ mounted
  /\ outstanding > 0
  /\ outstanding' = outstanding - 1
  /\ error' = IF backendError # "" THEN backendError ELSE "Failed to process video"
  /\ loading' = FALSE
  /\ UNCHANGED << mounted, locatorVars, videoInfo, downloadingIndex, downloadStatus, downloadSpeed, eventSource,
                  slowDownloadReason, downloadStartTime, open, jobs, now, alerts,
                  terminated >>

\* ------------------------------------------- download & progress coordinator
\* startProgressStream (lines 365-415) as called from handleMergeDownload:
\* the handle this render holds is closed, a channel with identifier id is
\* opened, and its handlers capture this render's downloadStartTime.
startProgressStream(op, id) == closeIfSet(op, eventSource) \cup {id}

\* handleMergeDownload up to its await (lines 440-464), for the list item at
\* index; the item's button is disabled only when downloadingIndex is that
\* index (line 612).  The job identifier is the call's ordinal; the job's
\* channel has the same identifier.
handleMergeDownload(index) ==
  /\ mounted
  /\ Len(jobs) < MaxJobs
  /\ index \in displayedIndices(videoInfo)
  /\ downloadingIndex # index
  /\ LET id == Len(jobs) + 1
         opened == startProgressStream(closeIfSet(open, eventSource), id)
     IN /\ downloadingIndex' = index
        /\ downloadStatus' = "starting"
        /\ downloadSpeed' = 0
        /\ downloadStartTime' = now
        /\ slowDownloadReason' = ""
        /\ eventSource' = id
        /\ open' = useEffectCleanup(eventSource, id, opened)
        /\ jobs' = Append(jobs, [es |-> eventSource,
                                 startTime |-> downloadStartTime, startedAt |-> now,
                                 fetch |-> "pending", timer |-> "none"])
  /\ UNCHANGED << formVars, now, alerts, terminated >>

\* The progress fields as they stand.
progressFields ==
  [downloadStatus |-> downloadStatus, downloadSpeed |-> downloadSpeed,
   slowDownloadReason |-> slowDownloadReason, eventSource |-> eventSource, open |-> open]

\* What es.onmessage of channel c does with event.data d (lines 376-406),
\* the re-render included: the progress fields after it.
messageEffect(c, d) ==
  LET threw == d.kind \in {"garbage", "null"}   \* JSON.parse, or .status of null
      status == IF d.kind = "object" THEN d.status ELSE "undefined"
      speed == IF d.kind = "object" THEN d.speed ELSE Undefined
      advisory == slowCheck(status, speed, now, jobs[c].startTime)
  IN IF threw THEN progressFields
     ELSE IF closesChannel(status)
     THEN [downloadStatus |-> statusOrEmpty(status), downloadSpeed |-> speedOrZero(speed),
           slowDownloadReason |-> "", eventSource |-> Null,
           open |-> useEffectCleanup(eventSource, Null, close(open, c))]
     ELSE [downloadStatus |-> statusOrEmpty(status), downloadSpeed |-> speedOrZero(speed),
           slowDownloadReason |-> IF advisory # "" THEN advisory ELSE slowDownloadReason,
           eventSource |-> eventSource, open |-> open]

\* What es.onerror of channel c does (lines 408-412), the re-render included.
errorEffect(c) ==
  [downloadStatus |-> downloadStatus, downloadSpeed |-> downloadSpeed,
   slowDownloadReason |-> "", eventSource |-> Null,
   open |-> useEffectCleanup(eventSource, Null, close(open, c))]

setProgressFields(r) ==
  /\ downloadStatus' = r.downloadStatus
  /\ downloadSpeed' = r.downloadSpeed
  /\ slowDownloadReason' = r.slowDownloadReason
  /\ eventSource' = r.eventSource
  /\ open' = r.open

\* A message event on channel c.  An EventSource dispatches events only
\* while it is not CLOSED.
onmessage(c, d) ==
  /\ mounted
  /\ c \in open
  /\ setProgressFields(messageEffect(c, d))
  /\ terminated' = IF d.kind = "object" /\ d.status \in TerminalStatuses
                   THEN terminated \cup {c} ELSE terminated
  /\ UNCHANGED << formVars, downloadingIndex, downloadStartTime, jobs, now, alerts >>

\* An error event on channel c.
onerror(c) ==
  /\ mounted
  /\ c \in open
  /\ setProgressFields(errorEffect(c))
  /\ UNCHANGED << formVars, downloadingIndex, downloadStartTime, jobs, now, alerts,
                  terminated >>

\* `if (eventSource) { eventSource.close(); setEventSource(null); }` in the
\* continuation of job j (lines 465-468, 481-484), followed by the commit.
closeCaptured(j) ==
  IF jobs[j].es # Null
  THEN /\ eventSource' = Null
       /\ open' = useEffectCleanup(eventSource, Null, close(open, jobs[j].es))
  ELSE UNCHANGED << eventSource, open >>

\* The continuation of handleMergeDownload for job j when the merge request
\* succeeds (lines 465-478, 486-492).
mergeResolved(j) ==
  /\ mounted
  /\ j \in Pending
  /\ closeCaptured(j)
  /\ downloadStatus' = "completed"
  /\ jobs' = [jobs EXCEPT ![j].fetch = "ok", ![j].timer = "scheduled"]
  /\ UNCHANGED << formVars, downloadingIndex, downloadSpeed, slowDownloadReason,
                  downloadStartTime, now, alerts, terminated >>

\* The failure continuation without its setDownloadStatus('error').
mergeRejectedNoStatus(j) ==
  /\ mounted
  /\ j \in Pending
  /\ alerts' = alerts + 1
  /\ closeCaptured(j)
  /\ jobs' = [jobs EXCEPT ![j].fetch = "fail", ![j].timer = "scheduled"]
  /\ UNCHANGED << formVars, downloadingIndex, downloadStatus, downloadSpeed,
                  slowDownloadReason, downloadStartTime, now, terminated >>

\* The continuation of handleMergeDownload for job j when the merge request
\* fails (lines 479-492).
mergeRejected(j) ==
  /\ mounted
  /\ j \in Pending
  /\ alerts' = alerts + 1
  /\ closeCaptured(j)
  /\ downloadStatus' = "error"
  /\ jobs' = [jobs EXCEPT ![j].fetch = "fail", ![j].timer = "scheduled"]
  /\ UNCHANGED << formVars, downloadingIndex, downloadSpeed, slowDownloadReason,
                  downloadStartTime, now, terminated >>

\* The setTimeout callback of job j (lines 487-491).
resetTimer(j) ==
  /\ mounted
  /\ j \in 1..Len(jobs)
  /\ jobs[j].timer = "scheduled"
  /\ downloadingIndex' = NoIndex
  /\ downloadStatus' = ""
  /\ downloadSpeed' = 0
  /\ jobs' = [jobs EXCEPT ![j].timer = "fired"]
  /\ UNCHANGED << formVars, eventSource, slowDownloadReason, downloadStartTime, open,
                  now, alerts, terminated >>

\* ------------------------------------------------------------------ unmount
\* Unmounting without the effect's cleanup.
unmountNoCleanup ==
  /\ mounted
  /\ mounted' = FALSE
  /\ UNCHANGED << loading, error, videoInfo, outstanding, locatorVars, downloadingIndex,
                  downloadStatus, downloadSpeed, eventSource, slowDownloadReason,
                  downloadStartTime, open, jobs, now, alerts, terminated >>

\* The component is unmounted: the cleanup of the last render's effect runs
\* (lines 358-362).  From then on the state setters do nothing and nothing
\* is rendered.
unmount ==
  /\ mounted
  /\ mounted' = FALSE
  /\ open' = closeIfSet(open, eventSource)
  /\ UNCHANGED << loading, error, videoInfo, outstanding, locatorVars, downloadingIndex,
                  downloadStatus, downloadSpeed, eventSource, slowDownloadReason,
                  downloadStartTime, jobs, now, alerts, terminated >>

\* The continuation of handleMergeDownload for job j after the unmount, when
\* the merge request succeeds: eventSource.close() on the captured handle
\* (lines 465-467) and the setTimeout (line 487) still run.
mergeResolvedUnmounted(j) ==
  /\ ~mounted
  /\ j \in Pending
  /\ open' = closeIfSet(open, jobs[j].es)
  /\ jobs' = [jobs EXCEPT ![j].fetch = "ok", ![j].timer = "scheduled"]
  /\ UNCHANGED << formVars, downloadingIndex, downloadStatus, downloadSpeed, eventSource,
                  slowDownloadReason, downloadStartTime, now, alerts, terminated >>

\* The same when the merge request fails (lines 479-483, 487): the alert is
\* still raised.
mergeRejectedUnmounted(j) ==
  /\ ~mounted
  /\ j \in Pending
  /\ alerts' = alerts + 1
  /\ open' = closeIfSet(open, jobs[j].es)
  /\ jobs' = [jobs EXCEPT ![j].fetch = "fail", ![j].timer = "scheduled"]
  /\ UNCHANGED << formVars, downloadingIndex, downloadStatus, downloadSpeed, eventSource,
                  slowDownloadReason, downloadStartTime, now, terminated >>

\* The setTimeout callback of job j after the unmount (lines 487-491).
resetTimerUnmounted(j) ==
  /\ ~mounted
  /\ j \in 1..Len(jobs)
  /\ jobs[j].timer = "scheduled"
  /\ jobs' = [jobs EXCEPT ![j].timer = "fired"]
  /\ UNCHANGED << formVars, downloadingIndex, downloadStatus, downloadSpeed, eventSource,
                  slowDownloadReason, downloadStartTime, open, now, alerts, terminated >>

\* Time passes.
Tick ==
  /\ now < ClockOrigin + MaxTicks * TickStep
  /\ now' = now + TickStep
  /\ UNCHANGED << formVars, downloadingIndex, downloadStatus, downloadSpeed, eventSource,
                  slowDownloadReason, downloadStartTime, open, jobs, alerts, terminated >>

\* ---------------------------------------------------------- specifications
\* The coordinator's handlers, at one instant.
NextDownload ==
  \/ \E index \in 0..1 : handleMergeDownload(index)
  \/ \E c \in 1..MaxJobs, d \in EventData : onmessage(c, d)
  \/ \E c \in 1..MaxJobs : onerror(c)
  \/ \E j \in 1..MaxJobs : mergeResolved(j)
  \/ \E j \in 1..MaxJobs : mergeRejected(j)
  \/ \E j \in 1..MaxJobs : resetTimer(j)

\* The coordinator's handlers with time passing between them.
NextTimed ==
  \/ \E index \in 0..1 : Len(jobs) < MaxTimedJobs /\ handleMergeDownload(index)
  \/ \E c \in 1..MaxJobs, d \in EventData : onmessage(c, d)
  \/ \E c \in 1..MaxJobs : onerror(c)
  \/ \E j \in 1..MaxJobs : mergeResolved(j)
  \/ \E j \in 1..MaxJobs : mergeRejected(j)
  \/ \E j \in 1..MaxJobs : resetTimer(j)
  \/ Tick

\* The backend locator alone, for every set of reachable ports.
NextLocator == probeSucceeded \/ probeFailed

LocatorSpec == Init /\ [][NextLocator]_vars

\* The format request flow alone, for every bounded format list.
InitForm == Init /\ reachable = {FirstPort}

NextForm ==
  \/ handleSubmit
  \/ \E resp \in FormResponses : submitResolved(resp)
  \/ \E msg \in {"", "Unsupported URL"} : submitRejected(msg)

FormSpec == InitForm /\ [][NextForm]_vars

Next ==
  \/ probeSucceeded
  \/ probeFailed
  \/ handleSubmit
  \/ \E resp \in Responses : submitResolved(resp)
  \/ \E msg \in {"", "Unsupported URL"} : submitRejected(msg)
  \/ NextDownload
  \/ Tick
  \/ unmount
  \/ \E j \in 1..MaxJobs : mergeResolvedUnmounted(j)
  \/ \E j \in 1..MaxJobs : mergeRejectedUnmounted(j)
  \/ \E j \in 1..MaxJobs : resetTimerUnmounted(j)

\* The whole component, from construction.
Spec == Init /\ [][Next]_vars

\* The download & progress coordinator, from the state in which one format
\* request has been answered with a list of two displayable entries.
InitLoaded ==
  /\ loading = FALSE
  /\ error = ""
  /\ videoInfo \in {r \in Responses : Len(displayedFormats(r)) = 2}
  /\ downloadingIndex = NoIndex
  /\ downloadStatus = ""
  /\ downloadSpeed = 0
  /\ eventSource = Null
  /\ slowDownloadReason = ""
  /\ downloadStartTime = Null
  /\ open = {}
  /\ jobs = << >>
  /\ now = ClockOrigin
  /\ alerts = 0
  /\ terminated = {}
  /\ outstanding = 0
  /\ mounted = TRUE
  /\ backendPort = DefaultPort
  /\ reachable = {FirstPort}
  /\ locator = [port |-> FirstPort, done |-> TRUE, probed |-> << FirstPort >>]

DownloadSpec == InitLoaded /\ [][NextDownload]_vars

TimedSpec == InitLoaded /\ [][NextTimed]_vars

\* The coordinator with an unmount at any moment.
NextUnmount ==
  \/ \E index \in 0..1 : Len(jobs) < MaxUnmountJobs /\ handleMergeDownload(index)
  \/ \E c \in 1..MaxJobs, d \in EventData : onmessage(c, d)
  \/ \E c \in 1..MaxJobs : onerror(c)
  \/ \E j \in 1..MaxJobs : mergeResolved(j)
  \/ \E j \in 1..MaxJobs : mergeRejected(j)
  \/ \E j \in 1..MaxJobs : resetTimer(j)
  \/ unmount
  \/ \E j \in 1..MaxJobs : mergeResolvedUnmounted(j)
  \/ \E j \in 1..MaxJobs : mergeRejectedUnmounted(j)
  \/ \E j \in 1..MaxJobs : resetTimerUnmounted(j)

UnmountSpec == InitLoaded /\ [][NextUnmount]_vars

\* The coordinator for one download whose progress snapshots carry the
\* sampled speeds.
NextSpeed ==
  \/ \E index \in 0..1 : Len(jobs) < MaxSpeedJobs /\ handleMergeDownload(index)
  \/ \E c \in 1..MaxJobs, d \in SpeedEvents \cup EventData : onmessage(c, d)
  \/ \E c \in 1..MaxJobs : onerror(c)
  \/ \E j \in 1..MaxJobs : mergeResolved(j)
  \/ \E j \in 1..MaxJobs : mergeRejected(j)
  \/ \E j \in 1..MaxJobs : resetTimer(j)

SpeedSpec == InitLoaded /\ [][NextSpeed]_vars

\* Format requests issued while a download runs.
NextBrowse ==
  \/ handleSubmit
  \/ \E resp \in Responses : submitResolved(resp)
  \/ \E msg \in {"", "Unsupported URL"} : submitRejected(msg)
  \/ \E index \in 0..1 : Len(jobs) < MaxBrowseJobs /\ handleMergeDownload(index)
  \/ \E c \in 1..MaxJobs, d \in EventData : onmessage(c, d)
  \/ \E c \in 1..MaxJobs : onerror(c)
  \/ \E j \in 1..MaxJobs : mergeResolved(j)
  \/ \E j \in 1..MaxJobs : mergeRejected(j)
  \/ \E j \in 1..MaxJobs : resetTimer(j)

BrowseSpec == InitLoaded /\ [][NextBrowse]_vars

\* The coordinator when every merge request eventually settles and every
\* scheduled timer eventually fires.
FairDownloadSpec ==
  /\ DownloadSpec
  /\ \A j \in 1..MaxJobs : WF_vars(mergeResolved(j) \/ mergeRejected(j))
  /\ \A j \in 1..MaxJobs : WF_vars(resetTimer(j))

TypeOK ==
  /\ loading \in BOOLEAN
  /\ downloadingIndex \in {NoIndex} \cup 0..1
  /\ eventSource \in 0..MaxJobs
  /\ open \subseteq 1..Len(jobs)
  /\ Len(jobs) <= MaxJobs

\* ------------------------------------------------------------------ claims
Settled(j) == jobs[j].fetch = "pending" /\ jobs'[j].fetch # "pending"

Idle == downloadingIndex = NoIndex /\ downloadStatus = "" /\ downloadSpeed = 0

Malformed == {d \in EventData : d.kind \in {"garbage", "null", "number"}}

\* C1: at most one progress channel is open in every reachable state, and a
\* step that starts a download leaves exactly the new job's channel open.
C1_AtMostOneOpenChannel ==
  /\ [](Cardinality(open) <= 1)
  /\ [][Len(jobs') = Len(jobs) + 1 => open' = {Len(jobs')}]_vars

\* C1 witness: the second download was started while the first job's channel
\* was the open one and its request outstanding; only the new channel is open.
C1_Witness ==
  /\ Len(jobs) >= 2
  /\ jobs[2].es = 1
  /\ jobs[1].fetch = "pending"
  /\ open = {2}

\* C2: when the merge request of job j settles, the channel opened for job j
\* is not open afterwards.
C2_ChannelClosedOnSettle ==
  [][\A j \in 1..Len(jobs) : Settled(j) => j \notin open']_vars

\* C3: a channel that has delivered a terminal status is closed from then on;
\* a closed EventSource dispatches no event, so none of its handlers runs
\* again and it changes no state.
C3_TerminalMessageClosesChannel == \A c \in terminated : c \notin open

\* C3 witness: the first channel delivered a terminal status while its
\* request was outstanding, and the job's status is still that of the message.
C3_Witness ==
  /\ 1 \in terminated
  /\ Len(jobs) = 1
  /\ jobs[1].fetch = "pending"
  /\ downloadStatus = "finished"

\* C4: in a state whose download status is not terminal, an error event on
\* an open channel sets the download status to `error`.
C4_TransportErrorSetsError ==
  \A c \in open :
    downloadStatus \in {"starting", "downloading", "merging"}
      => errorEffect(c).downloadStatus = "error"

\* C5: a merge request settles in one of two ways: it succeeds, the status
\* becomes `completed` and no alert is raised; or it fails, exactly one alert
\* is raised and the status becomes `error`.
C5_SettleOutcomes ==
  [][\A j \in 1..Len(jobs) :
       Settled(j) =>
         \/ jobs'[j].fetch = "ok" /\ downloadStatus' = "completed" /\ alerts' = alerts
         \/ jobs'[j].fetch = "fail" /\ downloadStatus' = "error" /\ alerts' = alerts + 1]_vars

\* C5 witness: one request has failed and one has succeeded; one alert.
C5_Witness ==
  /\ Len(jobs) >= 2
  /\ jobs[1].fetch = "fail"
  /\ jobs[2].fetch = "ok"
  /\ alerts = 1
  /\ downloadStatus = "completed"

\* C6: no two merge requests are outstanding at the same time.
C6_AtMostOneActiveJob == Cardinality(Pending) <= 1

\* C7: a terminal download status is eventually followed by the idle progress
\* fields, and the fields leave idle only by a step that starts a download.
C7_EventuallyIdleAndStays ==
  /\ (downloadStatus \in TerminalStatuses) ~> Idle
  /\ [][Idle /\ ~Idle' => Len(jobs') = Len(jobs) + 1]_vars

\* C8: a malformed message on an open channel leaves status, speed, advisory,
\* handle and the channel itself as they are.
C8_MalformedMessageIgnored ==
  \A c \in open : \A d \in Malformed : messageEffect(c, d) = progressFields

\* C9: a snapshot sets the advisory only if its status is `downloading`, more
\* than 30 seconds have passed since the start of the job owning the channel,
\* and its speed is below 1 MB/s; the very-slow wording only below 50 KB/s,
\* the milder one only below 200 KB/s.
C9_AdvisoryOnlyAfterThreshold ==
  \A c \in open : \A d \in EventData :
    LET set == messageEffect(c, d).slowDownloadReason
    IN set # "" /\ set # slowDownloadReason =>
         /\ d.status = "downloading"
         /\ now - jobs[c].startedAt > 30
         /\ d.speed # Undefined /\ d.speed < 1024 * 1024
         /\ set = VerySlowWording => d.speed < 50 * 1024
         /\ set = SlowWording => d.speed < 200 * 1024

\* C10: the advisory is empty whenever the download status is terminal.
C10_AdvisoryClearedWhenTerminal ==
  ~(downloadStatus \in TerminalStatuses /\ slowDownloadReason # "")

LowestReachable == CHOOSE p \in reachable : \A q \in reachable : p <= q

\* C11: the locator probes 5001, 5002, ... in ascending order without gaps;
\* every probed port but the last is unreachable (no probe follows a
\* success); when the loop has ended the resolved port is the lowest
\* reachable port, or, when no port is reachable, all nine ports have been
\* probed and the resolved port is still the default 5001.
C11_FirstReachablePortWins ==
  LET probed == locator.probed
      n == Len(probed)
  IN /\ probed = [i \in 1..n |-> 5001 + (i - 1)]
     /\ n <= 9
     /\ \A i \in 1..(n - 1) : probed[i] \notin reachable
     /\ ~locator.done => backendPort = 5001
     /\ locator.done =>
          IF reachable = {}
          THEN n = 9 /\ backendPort = 5001
          ELSE backendPort = LowestReachable /\ probed[n] = LowestReachable

\* C11 witness: ports 5003 and 5007 are the reachable ones, the loop has
\* ended after three probes and 5003 is the resolved port.
C11_Witness ==
  /\ reachable = {5003, 5007}
  /\ locator.done
  /\ locator.probed = << 5001, 5002, 5003 >>
  /\ backendPort = 5003

\* The positions in the backend's list of the descriptors with quality q.
PositionsOf(q) == {i \in 1..Len(videoInfo.formats) : videoInfo.formats[i].quality = q}

\* The position in the backend's list of the k-th displayed descriptor.
PositionOfShown(k) ==
  CHOOSE i \in 1..Len(videoInfo.formats) :
    videoInfo.formats[i] = displayedFormats(videoInfo)[k]

\* C12: the displayed list has no two entries of the same quality and no
\* entry whose filesize is missing, zero or negative.
C12_DisplayedUniqueWithFilesize ==
  LET shown == displayedFormats(videoInfo)
  IN /\ \A i, k \in 1..Len(shown) : i # k => shown[i].quality # shown[k].quality
     /\ \A i \in 1..Len(shown) :
          shown[i].filesize # Undefined /\ shown[i].filesize > 0

\* C12 witness: a list with a repeated quality and with missing and zero
\* filesizes, of which one entry is displayed.
C12_Witness ==
  /\ videoInfo # NoVideoInfo
  /\ videoInfo.formats = << Fmt("1", "720p", 1000), Fmt("2", "720p", 1000),
                            Fmt("3", "480p", 0) >>
  /\ Len(displayedFormats(videoInfo)) = 1

\* C13: every displayed descriptor is the first descriptor of its quality in
\* the backend's list, and the displayed descriptors are in the backend's
\* order.
C13_FirstOccurrenceWins ==
  videoInfo # NoVideoInfo =>
    LET fs == videoInfo.formats
        shown == displayedFormats(videoInfo)
    IN /\ \A k \in 1..Len(shown) :
            \A i \in PositionsOf(shown[k].quality) : PositionOfShown(k) <= i
       /\ \A k \in 1..(Len(shown) - 1) : PositionOfShown(k) < PositionOfShown(k + 1)

\* C13 as amended: a quality is displayed exactly when some descriptor of
\* that quality has a positive filesize; the descriptor displayed for it is
\* the first such descriptor in the backend's list; and the displayed
\* descriptors are in the backend's order.
C13_FirstDisplayableOccurrenceWins ==
  videoInfo # NoVideoInfo =>
    LET fs == videoInfo.formats
        shown == displayedFormats(videoInfo)
        displayable(q) == {i \in PositionsOf(q) : fs[i].filesize # Undefined /\ fs[i].filesize > 0}
    IN /\ \A k \in 1..Len(shown) :
            /\ PositionOfShown(k) \in displayable(shown[k].quality)
            /\ \A i \in displayable(shown[k].quality) : PositionOfShown(k) <= i
       /\ \A q \in Qualities :
            displayable(q) # {} => \E k \in 1..Len(shown) : shown[k].quality = q
       /\ \A k \in 1..(Len(shown) - 1) : PositionOfShown(k) < PositionOfShown(k + 1)

\* C13 witness: the first 720p descriptor has filesize 0 and a later one a
\* positive filesize; the later one is displayed, after the 480p descriptor.
C13_Witness ==
  /\ videoInfo # NoVideoInfo
  /\ videoInfo.formats = << Fmt("1", "720p", 0), Fmt("2", "480p", 1000),
                            Fmt("3", "720p", 1000) >>
  /\ displayedFormats(videoInfo) = << Fmt("2", "480p", 1000), Fmt("3", "720p", 1000) >>

\* C14: loading is true exactly while a format request is in flight; a
\* submission leaves VideoInfo and the error message empty; a settling
\* request leaves either VideoInfo set to a response with the error message
\* empty, or the error message non-empty with VideoInfo empty.
C14_FormatRequestFlow ==
  /\ [](loading <=> outstanding > 0)
  /\ [][outstanding' = outstanding + 1 => videoInfo' = NoVideoInfo /\ error' = ""]_vars
  /\ [][outstanding' = outstanding - 1 =>
          \/ videoInfo' \in FormResponses /\ error' = ""
          \/ videoInfo' = NoVideoInfo /\ error' # ""]_vars

\* C14 witness: a request was answered, a second one failed without a backend
\* message: the fallback message is shown, VideoInfo is empty, nothing is in
\* flight.
C14_Witness ==
  /\ error = "Failed to process video"
  /\ videoInfo = NoVideoInfo
  /\ ~loading
  /\ outstanding = 0

\* C15: after the unmount no progress channel is open.
C15_NoChannelAfterUnmount == ~mounted => open = {}

\* C15 witness: the component was unmounted while the first job's request was
\* outstanding and its channel was the current handle; the channel is closed.
C15_Witness ==
  /\ ~mounted
  /\ Len(jobs) = 1
  /\ jobs[1].fetch = "pending"
  /\ eventSource = 1
  /\ 1 \notin terminated
  /\ open = {}

\* The text a speed is to be shown as in the given unit: a number with one
\* decimal that differs from speed / unit by at most half a tenth.
OneDecimalOf(speed, unit, suffix) ==
  { toFixed1(n) \o suffix :
      n \in { m \in 0 .. ((speed * 10) \div unit + 1) :
                 2 * unit * m - 20 * speed <= unit /\ 20 * speed - 2 * unit * m <= unit } }

\* C16: for every positive integer speed formatSpeed yields whole bytes with
\* B/s below 1024, speed/1024 to one decimal with KB/s from 1024 up to but
\* excluding 1048576, and speed/1048576 to one decimal with MB/s from there
\* on; 500 gives "500 B/s", 2048 "2.0 KB/s" and 5242880 "5.0 MB/s".
C16_FormatSpeedByThreshold ==
  /\ downloadSpeed > 0 /\ downloadSpeed < 1024
       => formatSpeed(downloadSpeed) = ToString(downloadSpeed) \o " B/s"
  /\ downloadSpeed >= 1024 /\ downloadSpeed < 1048576
       => formatSpeed(downloadSpeed) \in OneDecimalOf(downloadSpeed, 1024, " KB/s")
  /\ downloadSpeed >= 1048576
       => formatSpeed(downloadSpeed) \in OneDecimalOf(downloadSpeed, 1048576, " MB/s")
  /\ downloadSpeed = 500 => formatSpeed(downloadSpeed) = "500 B/s"
  /\ downloadSpeed = 2048 => formatSpeed(downloadSpeed) = "2.0 KB/s"
  /\ downloadSpeed = 5242880 => formatSpeed(downloadSpeed) = "5.0 MB/s"

\* C16 witness: a snapshot with a speed just under 2 KiB/s is on display,
\* and its rendering rounds up to the next tenth.
C16_Witness ==
  /\ downloadStatus = "downloading"
  /\ downloadSpeed = 2047
  /\ speedLine = "Download speed: 2.0 KB/s"

\* The jobs started after job j whose merge request is outstanding.
NewerPending(j) == {k \in Pending : k > j}

\* C17: when the merge request of a job settles while a newer job's request
\* is outstanding, the newer job's channel stays open if it was open and the
\* download status is not overwritten.
C17_SettleLeavesNewerJobAlone ==
  [][\A j \in 1..Len(jobs) :
       Settled(j) /\ NewerPending(j) # {}
         => /\ \A k \in NewerPending(j) : k \in open => k \in open'
            /\ downloadStatus' = downloadStatus]_vars

\* C18: when the reset timer of a job fires while a newer job's request is
\* outstanding, downloadingIndex, the status and the speed of the newer job
\* are left as they are.
C18_TimerResetsOnlyItsOwnJob ==
  [][\A j \in 1..Len(jobs) :
       jobs[j].timer = "scheduled" /\ jobs'[j].timer = "fired" /\ NewerPending(j) # {}
         => UNCHANGED << downloadingIndex, downloadStatus, downloadSpeed >>]_vars

\* C19: a terminal download status never changes to a non-terminal status
\* other than by the reset to idle or the `starting` of a new job.
C19_TerminalStatusStable ==
  [][(downloadStatus \in TerminalStatuses)
       => downloadStatus' \in TerminalStatuses \cup {"", "starting"}]_vars

\* C20: downloadingIndex is never non-null while VideoInfo is empty, and the
\* format list is never replaced under a non-null downloadingIndex.
C20_IndexDesignatesSelectedEntry ==
  /\ [](downloadingIndex # NoIndex => videoInfo # NoVideoInfo)
  /\ [][videoInfo' # videoInfo /\ videoInfo' # NoVideoInfo
         => downloadingIndex' = NoIndex]_vars
====
